---- MODULE Spec2Model ----
(***************************************************************************)
(* Model of the trace-docs repository:                                     *)
(*   - scripts/setup.sh       : the quick setup script, one action per     *)
(*                              statement, run under `set -e`;             *)
(*   - lib/layout.shared.tsx  : baseOptions(), the navigation record;      *)
(*   - app/(home)/page.tsx    : HomePage(), the landing page tree.         *)
(***************************************************************************)
EXTENDS Integers, Sequences, FiniteSets, TLC

\* ------------------------------------------------------------------------
\* Bounds of the model
\* ------------------------------------------------------------------------

\* Largest exit status an external command (yarn, npm, chmod, import) is
\* modelled to return; 0 is success, 1..MaxStatus are failures.
MaxStatus == 2

\* Number of times the script is run in a row on the same file system.
MaxRuns == 2

\* Number of calls of baseOptions() that are modelled.
MaxCalls == 3

\* ------------------------------------------------------------------------
\* Program constants
\* ------------------------------------------------------------------------

\* `exit 1` of the package.json precondition check.
PreconditionExitStatus == 1

\* Status with which bash leaves a script on a syntax error.
SyntaxErrorStatus == 2

VARIABLES
    \* --- file system and PATH seen by scripts/setup.sh ---
    pkgJson,        \* "absent" | "file" | "dir" : ./package.json
    traceDir,       \* BOOLEAN : ../Trace is a directory
    yarnOnPath,     \* BOOLEAN : `command -v yarn` succeeds
    nodeModules,    \* "none" | "partial" | "installed"
    genApiDocs,     \* "missing" | "plain" | "exec" : scripts/generate_api_docs.py
    convertNb,      \* "missing" | "plain" | "exec" : scripts/convert_notebooks.py
    \* --- one execution of scripts/setup.sh ---
    pc,             \* the statement the shell executes next, or "exited"
    exitStatus,     \* exit status of the script, meaningful when pc = "exited"
    stdout,         \* the lines printed so far by this execution
    ran,            \* the external commands run so far: <<[cmd, rc], ...>>
    run,            \* number of the current execution, 1..MaxRuns
    prev,           \* what the previous execution left behind
    \* --- the site ---
    returned,       \* the records returned by the calls of baseOptions()
    renderPos,      \* number of nodes of HomePage() rendered so far
    output,         \* text written so far by the rendering of HomePage()
    threw           \* the rendering of HomePage() has thrown

scriptVars == <<pkgJson, traceDir, yarnOnPath, nodeModules, genApiDocs,
                convertNb, pc, exitStatus, stdout, ran, run, prev>>
siteVars == <<returned, renderPos, output, threw>>
vars == <<pkgJson, traceDir, yarnOnPath, nodeModules, genApiDocs,
          convertNb, pc, exitStatus, stdout, ran, run, prev,
          returned, renderPos, output, threw>>

fsVars == <<pkgJson, traceDir, yarnOnPath, nodeModules, genApiDocs, convertNb>>

\* ------------------------------------------------------------------------
\* scripts/setup.sh
\* ------------------------------------------------------------------------

Statuses == 0..MaxStatus
FileModes == {"missing", "plain", "exec"}

\* The lines the script prints (emoji left out).
MsgBanner        == "Setting up Trace Documentation Site..."
MsgBlank         == ""
MsgPkgError      == "Error: Please run this script from the trace-docs directory"
MsgTraceWarning  == "Warning: Trace repository not found at ../Trace"
MsgTraceWarning2 == "   Automation scripts may not work without it."
MsgInstalling    == "Installing Node.js dependencies..."
MsgMakingExec    == "Making Python scripts executable..."
MsgSetupComplete == "Setup complete!"
MsgCommands      == "Available commands:"
MsgCmdDev        == "   npm run dev                    - Start development server"
MsgCmdBuild      == "   npm run build                  - Build for production"
MsgCmdApi        == "   npm run docs:generate-api      - Generate API documentation"
MsgCmdNotebooks  == "   npm run docs:convert-notebooks - Convert Jupyter notebooks"
MsgCmdAll        == "   npm run docs:generate-all      - Run all generators"
MsgReady         == "Ready to go! Run 'npm run dev' to start."

\* The external commands the script runs.
CmdYarn       == "yarn install"
CmdNpm        == "npm install"
CmdChmodGen   == "chmod +x scripts/generate_api_docs.py"
CmdChmodConv  == "chmod +x scripts/convert_notebooks.py"
CmdImportLink == "import Link from 'next/link';"
CmdImportIcons == "import { ArrowRight, Code2, Zap, GitBranch, BookOpen, Github, Sparkles } from 'lucide-react';"

Printed(msg) == \E i \in 1..Len(stdout) : stdout[i] = msg
Ran(cmd) == \E i \in 1..Len(ran) : ran[i].cmd = cmd
Succeeded(cmd) == \E i \in 1..Len(ran) : ran[i].cmd = cmd /\ ran[i].rc = 0
Failed(cmd) == \E i \in 1..Len(ran) : ran[i].cmd = cmd /\ ran[i].rc # 0
TimesRan(cmd) == Cardinality({i \in 1..Len(ran) : ran[i].cmd = cmd})

\* [ -f p ] : p exists and is a regular file.
IsDirOrFile(p) == p # "absent"
IsRegularFile(p) == p = "file"

\* `set -e`: a command that exits non-zero ends the script with that status,
\* otherwise the script goes on with the next statement.
NoSetE(rc, next) == [pc |-> next, status |-> 0]
SetE(rc, next) ==
    IF rc # 0 THEN [pc |-> "exited", status |-> rc]
              ELSE [pc |-> next, status |-> 0]

\* chmod +x on a file of the given mode, when chmod succeeds.
ChmodToggleX(mode) == IF mode = "exec" THEN "plain" ELSE "exec"
ChmodPlusX(mode) == "exec"

\* The exit statuses chmod can return on a file of the given mode: it fails
\* on a missing file, and may fail (not permitted) on an existing one.
ChmodStatuses(mode) == IF mode = "missing" THEN Statuses \ {0} ELSE Statuses

\* The package manager the script picks.
PackageManager == IF yarnOnPath THEN CmdYarn ELSE CmdNpm

\* What a run of the package manager leaves in node_modules.
InstallResults(rc) ==
    IF rc = 0 THEN {"installed"} ELSE {nodeModules, "partial"}

NoPrev == [valid |-> FALSE, completed |-> FALSE, status |-> 0,
           nodeModules |-> "none", genApiDocs |-> "missing",
           convertNb |-> "missing"]

ScriptInit ==
    /\ pkgJson \in {"absent", "file", "dir"}
    /\ traceDir \in BOOLEAN
    /\ yarnOnPath \in BOOLEAN
    /\ nodeModules \in {"none", "installed"}
    /\ genApiDocs \in FileModes
    /\ convertNb \in FileModes
    /\ pc = "banner"
    /\ exitStatus = 0
    /\ stdout = <<>>
    /\ ran = <<>>
    /\ run = 1
    /\ prev = NoPrev

\* echo "Setting up Trace Documentation Site..."; echo ""
Banner ==
    /\ pc = "banner"
    /\ stdout' = stdout \o <<MsgBanner, MsgBlank>>
    /\ pc' = "check_package_json"
    /\ UNCHANGED <<fsVars, exitStatus, ran, run, prev>>
    /\ UNCHANGED siteVars

\* if [ ! -f "package.json" ]; then echo "Error ..."; exit 1; fi
CheckPackageJsonNoExit ==
    /\ pc = "check_package_json"
    /\ stdout' = IF ~IsRegularFile(pkgJson) THEN Append(stdout, MsgPkgError)
                                            ELSE stdout
    /\ pc' = "check_trace_repo"
    /\ UNCHANGED <<fsVars, exitStatus, ran, run, prev>>
    /\ UNCHANGED siteVars

CheckPackageJson ==
    /\ pc = "check_package_json"
    /\ IF ~IsRegularFile(pkgJson)
       THEN /\ stdout' = Append(stdout, MsgPkgError)
            /\ pc' = "exited"
            /\ exitStatus' = PreconditionExitStatus
       ELSE /\ pc' = "check_trace_repo"
            /\ UNCHANGED <<stdout, exitStatus>>
    /\ UNCHANGED <<fsVars, ran, run, prev>>
    /\ UNCHANGED siteVars

\* if [ ! -d "../Trace" ]; then echo "Warning ..."; echo ...; echo ""; fi
CheckTraceRepoFatal ==
    /\ pc = "check_trace_repo"
    /\ IF ~traceDir
       THEN /\ stdout' = stdout \o <<MsgTraceWarning, MsgTraceWarning2, MsgBlank>>
            /\ pc' = "exited"
            /\ exitStatus' = PreconditionExitStatus
       ELSE /\ pc' = "install"
            /\ UNCHANGED <<stdout, exitStatus>>
    /\ UNCHANGED <<fsVars, ran, run, prev>>
    /\ UNCHANGED siteVars

CheckTraceRepo ==
    /\ pc = "check_trace_repo"
    /\ stdout' = IF ~traceDir
                 THEN stdout \o <<MsgTraceWarning, MsgTraceWarning2, MsgBlank>>
                 ELSE stdout
    /\ pc' = "install"
    /\ UNCHANGED <<fsVars, exitStatus, ran, run, prev>>
    /\ UNCHANGED siteVars

\* echo "Installing ..."; if command -v yarn; then yarn install; else npm install; fi
InstallDepsFallback ==
    /\ pc = "install"
    /\ stdout' = Append(stdout, MsgInstalling)
    /\ \E rc \in Statuses, rc2 \in Statuses :
         LET last == IF yarnOnPath /\ rc # 0 THEN rc2 ELSE rc IN
         /\ ran' = IF yarnOnPath /\ rc # 0
                   THEN ran \o << [cmd |-> CmdYarn, rc |-> rc],
                                  [cmd |-> CmdNpm, rc |-> rc2] >>
                   ELSE Append(ran, [cmd |-> PackageManager, rc |-> rc])
         /\ nodeModules' \in InstallResults(last)
         /\ pc' = SetE(last, "chmod_generate").pc
         /\ exitStatus' = SetE(last, "chmod_generate").status
    /\ UNCHANGED <<pkgJson, traceDir, yarnOnPath, genApiDocs, convertNb, run, prev>>
    /\ UNCHANGED siteVars

InstallDeps ==
    /\ pc = "install"
    /\ stdout' = Append(stdout, MsgInstalling)
    /\ \E rc \in Statuses :
         /\ ran' = Append(ran, [cmd |-> PackageManager, rc |-> rc])
         /\ nodeModules' \in InstallResults(rc)
         /\ pc' = SetE(rc, "chmod_generate").pc
         /\ exitStatus' = SetE(rc, "chmod_generate").status
    /\ UNCHANGED <<pkgJson, traceDir, yarnOnPath, genApiDocs, convertNb, run, prev>>
    /\ UNCHANGED siteVars

\* echo "Making Python scripts executable..."; chmod +x scripts/generate_api_docs.py
ChmodGenerate ==
    /\ pc = "chmod_generate"
    /\ stdout' = Append(stdout, MsgMakingExec)
    /\ \E rc \in ChmodStatuses(genApiDocs) :
         /\ ran' = Append(ran, [cmd |-> CmdChmodGen, rc |-> rc])
         /\ genApiDocs' = IF rc = 0 THEN ChmodPlusX(genApiDocs) ELSE genApiDocs
         /\ pc' = SetE(rc, "chmod_convert").pc
         /\ exitStatus' = SetE(rc, "chmod_convert").status
    /\ UNCHANGED <<pkgJson, traceDir, yarnOnPath, nodeModules, convertNb, run, prev>>
    /\ UNCHANGED siteVars

\* chmod +x scripts/convert_notebooks.py
ChmodConvertRollback ==
    /\ pc = "chmod_convert"
    /\ \E rc \in ChmodStatuses(convertNb) :
         /\ ran' = Append(ran, [cmd |-> CmdChmodConv, rc |-> rc])
         /\ convertNb' = IF rc = 0 THEN ChmodPlusX(convertNb) ELSE convertNb
         /\ genApiDocs' = IF rc = 0 THEN genApiDocs ELSE "plain"
         /\ pc' = SetE(rc, "complete").pc
         /\ exitStatus' = SetE(rc, "complete").status
    /\ UNCHANGED <<pkgJson, traceDir, yarnOnPath, nodeModules, stdout, run, prev>>
    /\ UNCHANGED siteVars

ChmodConvert ==
    /\ pc = "chmod_convert"
    /\ \E rc \in ChmodStatuses(convertNb) :
         /\ ran' = Append(ran, [cmd |-> CmdChmodConv, rc |-> rc])
         /\ convertNb' = IF rc = 0 THEN ChmodPlusX(convertNb) ELSE convertNb
         /\ pc' = SetE(rc, "complete").pc
         /\ exitStatus' = SetE(rc, "complete").status
    /\ UNCHANGED <<pkgJson, traceDir, yarnOnPath, nodeModules, genApiDocs,
                   stdout, run, prev>>
    /\ UNCHANGED siteVars

\* echo ""; echo "Setup complete!"; ... ; echo "Ready to go! ..."
Complete ==
    /\ pc = "complete"
    /\ stdout' = stdout \o <<MsgBlank, MsgSetupComplete, MsgBlank, MsgCommands,
                             MsgCmdDev, MsgCmdBuild, MsgCmdApi, MsgCmdNotebooks,
                             MsgCmdAll, MsgBlank, MsgReady>>
    /\ pc' = "import_link"
    /\ UNCHANGED <<fsVars, exitStatus, ran, run, prev>>
    /\ UNCHANGED siteVars

\* The text after the last echo. bash reads it as commands:
\* `import Link from 'next/link';` runs whatever `import` is on the PATH
\* (not found, or a program of that name); its status is the environment's.
ImportLink ==
    /\ pc = "import_link"
    /\ \E rc \in Statuses :
         /\ ran' = Append(ran, [cmd |-> CmdImportLink, rc |-> rc])
         /\ pc' = SetE(rc, "import_icons").pc
         /\ exitStatus' = SetE(rc, "import_icons").status
    /\ UNCHANGED <<fsVars, stdout, run, prev>>
    /\ UNCHANGED siteVars

\* `import { ArrowRight, ... } from 'lucide-react';`
ImportIcons ==
    /\ pc = "import_icons"
    /\ \E rc \in Statuses :
         /\ ran' = Append(ran, [cmd |-> CmdImportIcons, rc |-> rc])
         /\ pc' = SetE(rc, "export_default").pc
         /\ exitStatus' = SetE(rc, "export_default").status
    /\ UNCHANGED <<fsVars, stdout, run, prev>>
    /\ UNCHANGED siteVars

\* `export default function HomePage() {` : syntax error near unexpected
\* token `(' ; bash stops reading the script and exits.
ExportDefault ==
    /\ pc = "export_default"
    /\ pc' = "exited"
    /\ exitStatus' = SyntaxErrorStatus
    /\ UNCHANGED <<fsVars, stdout, ran, run, prev>>
    /\ UNCHANGED siteVars

\* The user runs the script again, on the file system the last run left.
Rerun ==
    /\ pc = "exited"
    /\ run < MaxRuns
    /\ prev' = [valid |-> TRUE,
                completed |-> Printed(MsgSetupComplete),
                status |-> exitStatus,
                nodeModules |-> nodeModules,
                genApiDocs |-> genApiDocs,
                convertNb |-> convertNb]
    /\ run' = run + 1
    /\ pc' = "banner"
    /\ exitStatus' = 0
    /\ stdout' = <<>>
    /\ ran' = <<>>
    /\ UNCHANGED fsVars
    /\ UNCHANGED siteVars

ScriptStep ==
    \/ Banner
    \/ CheckPackageJson
    \/ CheckTraceRepo
    \/ InstallDeps
    \/ ChmodGenerate
    \/ ChmodConvert
    \/ Complete
    \/ ImportLink
    \/ ImportIcons
    \/ ExportDefault

\* ------------------------------------------------------------------------
\* lib/layout.shared.tsx
\* ------------------------------------------------------------------------

\* nav.title: the fragment <><svg aria-label="Trace Logo">...</svg>
\* <span className="font-bold">Trace2</span></>
NavTitle ==
    << [el |-> "svg", ariaLabel |-> "Trace Logo",
        paths |-> <<"M3 12 L9 6 L15 12 L21 6", "M3 18 L9 12 L15 18 L21 12">>],
       [el |-> "span", className |-> "font-bold", text |-> "Trace2"] >>

\* links: [...]
NavLinksNoPaperUrl ==
    << [text |-> "Documentation", url |-> "/docs", active |-> "nested-url"],
       [text |-> "GitHub", url |-> "https://github.com/AgentOpt/OpenTrace",
        external |-> TRUE],
       [text |-> "Paper", url |-> "", external |-> TRUE] >>

NavLinks ==
    << [text |-> "Documentation", url |-> "/docs", active |-> "nested-url"],
       [text |-> "GitHub", url |-> "https://github.com/AgentOpt/OpenTrace",
        external |-> TRUE],
       [text |-> "Paper", url |-> "https://arxiv.org/abs/2406.16218",
        external |-> TRUE] >>

\* export function baseOptions(): BaseLayoutProps
baseOptions == [nav |-> [title |-> NavTitle], links |-> NavLinks]

\* A call of baseOptions(): the object literal is evaluated anew, the call
\* returns a fresh record and touches no record returned before.
CallBaseOptionsShared ==
    /\ Len(returned) < MaxCalls
    /\ returned' = Append([i \in DOMAIN returned |->
                              [returned[i] EXCEPT
                                  !.links = Append(@, baseOptions.links[1])]],
                          baseOptions)
    /\ UNCHANGED <<renderPos, output, threw>>
    /\ UNCHANGED scriptVars

CallBaseOptions ==
    /\ Len(returned) < MaxCalls
    /\ returned' = Append(returned, baseOptions)
    /\ UNCHANGED <<renderPos, output, threw>>
    /\ UNCHANGED scriptVars

\* ------------------------------------------------------------------------
\* app/(home)/page.tsx
\* ------------------------------------------------------------------------

\* import Link from 'next/link'; import { ArrowRight, ... } from 'lucide-react'
Imports == {"Link", "ArrowRight", "Code2", "Zap", "GitBranch", "BookOpen",
            "Github", "Sparkles"}

\* The HTML elements the page uses.
Intrinsic == {"main", "section", "div", "span", "h1", "h2", "h3", "p",
              "pre", "code"}

El(e) == [el |-> e, text |-> ""]
Text(t) == [el |-> "#text", text |-> t]

\* One card of the "Quick Stats" grid.
Stat(value, label) ==
    << El("div"), El("div"), Text(value), El("div"), Text(label) >>

\* One card of the features grid.
Feature(icon, title, body) ==
    << El("div"), El("div"), El(icon), El("h3"), Text(title),
       El("p"), Text(body) >>

QuickstartCode ==
    "from opto.trace import node, bundle\nfrom opto.optimizers import OptoPrime\n\n# Define trainable function\n@bundle(trainable=True)\ndef strange_sort_list(lst):\n    '''Sort list in strange order: min, max, min, max...'''\n    return sorted(lst)\n\n# Optimize with feedback\noptimizer = OptoPrime(strange_sort_list.parameters())\n\nfor epoch in range(5):\n    output = strange_sort_list([1, 2, 3, 4])\n    feedback = check_correctness(output)\n    \n    optimizer.zero_feedback()\n    optimizer.backward(output, feedback)\n    optimizer.step()  # LLM updates the function!"

HeroSection ==
    << El("section"),
       El("div"), El("Sparkles"), El("span"), Text("AutoDiff for AI Agents"),
       El("h1"), Text("End-to-end Optimization for AI Systems"),
       El("p"), Text("Train AI agents with general feedback like rewards, natural language, or compiler errors. Write Python code directly and optimize it like training neural networks."),
       El("div"),
       El("Link"), Text("Get Started"), El("ArrowRight"),
       El("Link"), El("Github"), Text("View on GitHub"),
       El("div") >>
    \o Stat("3", "Optimizers")
    \o Stat("PyTorch-like", "API")
    \o Stat("NeurIPS", "2024")
    \o Stat("Open", "Source")

CodePreviewSection ==
    << El("section"), El("div"),
       El("div"), El("h2"), Text("Familiar PyTorch-like Syntax"),
       El("p"), Text("Define trainable parameters and optimize them with a simple, intuitive API"),
       El("div"), El("div"), El("div"), El("div"), El("div"), El("div"),
       El("span"), Text("quickstart.py"),
       El("pre"), El("code"), Text(QuickstartCode) >>

FeaturesSection ==
    << El("section"), El("div"),
       El("div"), El("h2"), Text("Why Trace?"),
       El("p"), Text("A new paradigm for training AI systems end-to-end"),
       El("div") >>
    \o Feature("GitBranch", "Computation Graph",
               "Automatically traces execution to build a computation graph, just like autograd but for AI agents.")
    \o Feature("Code2", "Write Real Code",
               "No need to wrap functions in strings. Write actual executable Python code with full IDE support.")
    \o Feature("Zap", "Multiple Optimizers",
               "Choose from OptoPrime, OPRO, or TextGrad. Switch optimizers with a single line of code.")
    \o Feature("BookOpen", "Rich Feedback",
               "Use any feedback: numerical rewards, natural language, compiler errors, or test results.")
    \o Feature("Sparkles", "LLM Backend Agnostic",
               "Works with OpenAI, Anthropic, or any LiteLLM-supported provider. Easy API key management.")
    \o Feature("Github", "Research-Backed",
               "Published at NeurIPS 2024. Battle-tested on NLP, robotics, and multi-agent tasks.")

CtaSection ==
    << El("section"), El("div"),
       El("h2"), Text("Ready to optimize your AI agents?"),
       El("p"), Text("Install Trace and start building self-improving AI systems in minutes."),
       El("div"), Text("pip install trace-opt"),
       El("div"),
       El("Link"), Text("Read the Docs"), El("ArrowRight"),
       El("Link"), Text("View Tutorials") >>

\* export default function HomePage(): the returned tree, its elements and
\* text nodes in document order.
HomePageGithubLabelChanged ==
    << El("main") >> \o
    [i \in DOMAIN HeroSection |->
        IF HeroSection[i] = Text("View on GitHub") THEN Text("Star on GitHub")
                                                   ELSE HeroSection[i]]
    \o CodePreviewSection \o FeaturesSection \o CtaSection

HomePage ==
    << El("main") >> \o HeroSection \o CodePreviewSection
                     \o FeaturesSection \o CtaSection

\* Rendering one node of the tree: an element whose type is neither an HTML
\* element nor an imported component makes the rendering throw; a text node
\* is written to the output.
RenderNode ==
    /\ ~threw
    /\ renderPos < Len(HomePage)
    /\ LET node == HomePage[renderPos + 1] IN
         IF node.el = "#text"
         THEN /\ output' = Append(output, node.text)
              /\ renderPos' = renderPos + 1
              /\ UNCHANGED threw
         ELSE IF node.el \in Intrinsic \cup Imports
         THEN /\ renderPos' = renderPos + 1
              /\ UNCHANGED <<output, threw>>
         ELSE /\ threw' = TRUE
              /\ UNCHANGED <<renderPos, output>>
    /\ UNCHANGED returned
    /\ UNCHANGED scriptVars

Rendered == renderPos = Len(HomePage)
OutputIncludes(s) == \E i \in 1..Len(output) : output[i] = s

\* The script has not been started; the site is served.
ScriptIdle ==
    /\ pkgJson = "file"
    /\ traceDir = TRUE
    /\ yarnOnPath = TRUE
    /\ nodeModules = "installed"
    /\ genApiDocs = "exec"
    /\ convertNb = "exec"
    /\ pc = "banner"
    /\ exitStatus = 0
    /\ stdout = <<>>
    /\ ran = <<>>
    /\ run = 1
    /\ prev = NoPrev

\* Nothing has been rendered yet.
SiteIdle ==
    /\ returned = <<>>
    /\ renderPos = 0
    /\ output = <<>>
    /\ threw = FALSE

SiteInit == ScriptIdle /\ SiteIdle

SiteNext == CallBaseOptions \/ RenderNode

SiteSpec == SiteInit /\ [][SiteNext]_vars

Init == ScriptInit /\ SiteIdle

Next == ScriptStep \/ Rerun

Spec == Init /\ [][Next]_vars

\* The shell executes the script's statements one after the other.
FairSpec == Init /\ [][Next]_vars /\ WF_vars(ScriptStep)

\* ------------------------------------------------------------------------
\* Properties of scripts/setup.sh
\* ------------------------------------------------------------------------

InstallRan == Ran(CmdYarn) \/ Ran(CmdNpm)
InstallSucceeded == Succeeded(CmdYarn) \/ Succeeded(CmdNpm)
InstallFailed == Failed(CmdYarn) \/ Failed(CmdNpm)
SetupCommands == {CmdYarn, CmdNpm, CmdChmodGen, CmdChmodConv}

\* C1: run where package.json is not a regular file, the script runs no
\* command, gets no further than the precondition check, and when it has
\* exited it has printed the error message and its status is 1, whatever
\* ../Trace and the PATH are.
C1_PreconditionError ==
    pkgJson # "file" =>
        /\ pc \in {"banner", "check_package_json", "exited"}
        /\ ran = <<>>
        /\ pc = "exited" => /\ Printed(MsgPkgError)
                            /\ exitStatus = 1

C1_Witness ==
    /\ pkgJson = "dir"
    /\ ~traceDir
    /\ pc = "exited"
    /\ Printed(MsgPkgError)
    /\ exitStatus = 1

\* C2: when package.json is present and every command the script ran has
\* succeeded, the dependency installation and both chmod among them, the
\* script has exited with status 0.
C2_ExitsZeroOnSuccess ==
    ( /\ pc = "exited"
      /\ pkgJson = "file"
      /\ InstallSucceeded
      /\ Succeeded(CmdChmodGen)
      /\ Succeeded(CmdChmodConv)
      /\ \A i \in 1..Len(ran) : ran[i].rc = 0 )
    => exitStatus = 0

\* C3: run where package.json is a regular file, the script never prints the
\* precondition error and every execution reaches the installation step
\* (yarn install or npm install is run), with or without ../Trace.
C3_ReachesInstall ==
    /\ [](pkgJson = "file" => ~Printed(MsgPkgError))
    /\ (pc = "banner" /\ pkgJson = "file") ~> InstallRan

C3_Witness ==
    /\ pkgJson = "file"
    /\ ~traceDir
    /\ Printed(MsgTraceWarning)
    /\ InstallRan
    /\ ~Printed(MsgPkgError)

\* C4: when the installation or one of the chmod commands has exited
\* non-zero, it is the last command the script ran, the script has exited
\* with that non-zero status, and "Setup complete!" has not been printed.
C4_AbortOnFirstFailure ==
    \A i \in 1..Len(ran) :
        (ran[i].cmd \in SetupCommands /\ ran[i].rc # 0) =>
            /\ i = Len(ran)
            /\ pc = "exited"
            /\ exitStatus = ran[i].rc
            /\ exitStatus # 0
            /\ ~Printed(MsgSetupComplete)
            /\ ~Printed(MsgReady)

C4_Witness ==
    /\ pc = "exited"
    /\ Succeeded(CmdChmodGen)
    /\ Failed(CmdChmodConv)
    /\ exitStatus # 0

\* C5, as stated: every execution that has exited non-zero either found
\* package.json absent (error printed, status 1) or had its installation
\* command fail.
C5_OnlyTwoErrorPaths ==
    (pc = "exited" /\ exitStatus # 0) =>
        \/ /\ pkgJson # "file"
           /\ Printed(MsgPkgError)
           /\ exitStatus = 1
        \/ InstallFailed

\* C5, amended: every execution that has exited non-zero either found
\* package.json absent (error printed, status 1), or had its installation
\* command fail, or had one of the two chmod commands fail, or had printed
\* "Ready to go!" and failed in the text that follows the last echo.
C5_ErrorPaths ==
    (pc = "exited" /\ exitStatus # 0) =>
        \/ /\ pkgJson # "file"
           /\ Printed(MsgPkgError)
           /\ exitStatus = 1
        \/ InstallFailed
        \/ Failed(CmdChmodGen)
        \/ Failed(CmdChmodConv)
        \/ /\ Printed(MsgReady)
           /\ \/ Failed(CmdImportLink)
              \/ Failed(CmdImportIcons)
              \/ /\ Succeeded(CmdImportIcons)
                 /\ exitStatus = 2

C5_Witness ==
    /\ pc = "exited"
    /\ exitStatus # 0
    /\ pkgJson = "file"
    /\ InstallSucceeded
    /\ Failed(CmdChmodGen)

\* C9, as stated: a run of the script from the state left by a run that
\* completed (dependencies installed, both Python scripts executable) does
\* not end in the same file-system state with the same outcome.
PrevRunSuccessful ==
    /\ run >= 2
    /\ prev.valid
    /\ prev.completed
    /\ prev.nodeModules = "installed"
    /\ prev.genApiDocs = "exec"
    /\ prev.convertNb = "exec"

SameFileSystemAsPrev ==
    /\ nodeModules = prev.nodeModules
    /\ genApiDocs = prev.genApiDocs
    /\ convertNb = prev.convertNb

C9_NonIdempotent ==
    (PrevRunSuccessful /\ pc = "exited") =>
        ~( /\ SameFileSystemAsPrev
           /\ Printed(MsgSetupComplete) = prev.completed
           /\ exitStatus = prev.status )

\* C9, amended: the script's operations are idempotent on the file system:
\* a run of the script from the state left by a run that completed, in which
\* the installation and both chmod commands succeed again, leaves the same
\* file-system state (dependencies installed, both Python scripts
\* executable).
C9_Idempotent ==
    ( /\ PrevRunSuccessful
      /\ InstallSucceeded
      /\ Succeeded(CmdChmodGen)
      /\ Succeeded(CmdChmodConv) )
    => /\ SameFileSystemAsPrev
       /\ nodeModules = "installed"
       /\ genApiDocs = "exec"
       /\ convertNb = "exec"

C9_Witness ==
    /\ PrevRunSuccessful
    /\ pc = "exited"
    /\ InstallSucceeded
    /\ Succeeded(CmdChmodGen)
    /\ Succeeded(CmdChmodConv)
    /\ Printed(MsgSetupComplete)
    /\ SameFileSystemAsPrev

\* C10: an execution runs the installation command at most once, and the
\* effects of the steps before a failing step stay: when the chmod of
\* scripts/convert_notebooks.py has failed, scripts/generate_api_docs.py is
\* executable and the dependencies are installed; when the chmod of
\* scripts/generate_api_docs.py has failed, the dependencies are installed.
C10_NoRetryNoRollback ==
    /\ TimesRan(CmdYarn) + TimesRan(CmdNpm) <= 1
    /\ Failed(CmdChmodConv) => /\ genApiDocs = "exec"
                               /\ nodeModules = "installed"
    /\ Failed(CmdChmodGen) => nodeModules = "installed"

C10_Witness ==
    /\ pc = "exited"
    /\ Failed(CmdChmodConv)
    /\ convertNb = "missing"
    /\ genApiDocs = "exec"
    /\ nodeModules = "installed"
    /\ TimesRan(CmdYarn) + TimesRan(CmdNpm) = 1

\* ------------------------------------------------------------------------
\* Properties of the site
\* ------------------------------------------------------------------------

\* C6: every record returned by baseOptions() has exactly three links,
\* Documentation, GitHub and Paper in this order, each with a non-empty text
\* and a non-empty url.
C6_ThreeLinks ==
    \A i \in 1..Len(returned) :
        /\ Len(returned[i].links) = 3
        /\ returned[i].links[1].text = "Documentation"
        /\ returned[i].links[2].text = "GitHub"
        /\ returned[i].links[3].text = "Paper"
        /\ \A k \in 1..Len(returned[i].links) :
              /\ returned[i].links[k].text # ""
              /\ returned[i].links[k].url # ""

C6_Witness ==
    /\ Len(returned) >= 2
    /\ Len(returned[2].links) = 3

\* C7: the rendering of HomePage() never throws, and once the whole tree is
\* rendered the output includes the texts "Get Started" and "View on GitHub".
C7_HomePageRenders ==
    /\ ~threw
    /\ Rendered => /\ OutputIncludes("Get Started")
                   /\ OutputIncludes("View on GitHub")

C7_Witness ==
    /\ Rendered
    /\ ~threw
    /\ OutputIncludes("Get Started")
    /\ OutputIncludes("View on GitHub")

ExpectedCommands ==
    << IF yarnOnPath THEN CmdYarn ELSE CmdNpm, CmdChmodGen, CmdChmodConv,
       CmdImportLink, CmdImportIcons >>

PastTraceCheck ==
    pc \notin {"banner", "check_package_json", "check_trace_repo"}

\* C11: with package.json present, the ../Trace check only prints: it runs
\* no command, changes no file and always goes on to the installation step,
\* printing the warning exactly when ../Trace is missing; the commands run
\* afterwards are the same with and without ../Trace (the package manager
\* picked from the PATH, then the two chmod, in this order) and the exit
\* status is the status of the last command run or that of the end of the
\* script, never one set by the ../Trace check.
C11_TraceWarningOnly ==
    /\ [](pkgJson = "file" =>
            /\ PastTraceCheck => (Printed(MsgTraceWarning) <=> ~traceDir)
            /\ Len(ran) <= Len(ExpectedCommands)
            /\ \A i \in 1..Len(ran) : ran[i].cmd = ExpectedCommands[i]
            /\ pc = "exited" =>
                  /\ ran # <<>>
                  /\ \/ /\ ran[Len(ran)].rc # 0
                        /\ exitStatus = ran[Len(ran)].rc
                     \/ /\ \A i \in 1..Len(ran) : ran[i].rc = 0
                        /\ Len(ran) = Len(ExpectedCommands)
                        /\ exitStatus = 2)
    /\ [][pc = "check_trace_repo" =>
            /\ pc' = "install"
            /\ ran' = ran
            /\ exitStatus' = exitStatus
            /\ nodeModules' = nodeModules
            /\ genApiDocs' = genApiDocs
            /\ convertNb' = convertNb
            /\ stdout' = IF traceDir
                         THEN stdout
                         ELSE stdout \o <<MsgTraceWarning, MsgTraceWarning2,
                                          MsgBlank>>]_vars

C11_Witness ==
    /\ pkgJson = "file"
    /\ ~traceDir
    /\ Printed(MsgTraceWarning)
    /\ pc = "exited"
    /\ InstallSucceeded
    /\ Succeeded(CmdChmodGen)
    /\ Succeeded(CmdChmodConv)
    /\ Printed(MsgSetupComplete)

\* C12: once the installation step has been executed, exactly one package
\* manager has been invoked, once: yarn install if and only if yarn is on
\* the PATH, npm install otherwise; when yarn install has failed the script
\* has exited and npm install has not been run.
C12_OnePackageManager ==
    /\ (PastTraceCheck /\ pc # "install") =>
          (pkgJson = "file" => TimesRan(CmdYarn) + TimesRan(CmdNpm) = 1)
    /\ TimesRan(CmdYarn) + TimesRan(CmdNpm) <= 1
    /\ Ran(CmdYarn) => yarnOnPath
    /\ Ran(CmdNpm) => ~yarnOnPath
    /\ Failed(CmdYarn) => /\ ~Ran(CmdNpm)
                          /\ pc = "exited"
                          /\ exitStatus # 0

C12_Witness ==
    /\ yarnOnPath
    /\ Failed(CmdYarn)
    /\ ~Ran(CmdNpm)
    /\ pc = "exited"

\* C13: when package.json is not a regular file, no step of the execution
\* changes node_modules or the mode of either Python script, no command is
\* run, and the ../Trace check is never reached: its warning is not printed
\* and nothing after it is printed either.
C13_PreconditionFailureChangesNothing ==
    /\ [](pkgJson # "file" =>
            /\ ran = <<>>
            /\ pc # "check_trace_repo"
            /\ ~PastTraceCheck \/ pc = "exited"
            /\ ~Printed(MsgTraceWarning)
            /\ ~Printed(MsgInstalling)
            /\ ~Printed(MsgMakingExec))
    /\ [][pkgJson # "file" =>
            /\ nodeModules' = nodeModules
            /\ genApiDocs' = genApiDocs
            /\ convertNb' = convertNb
            /\ pkgJson' = pkgJson
            /\ traceDir' = traceDir]_vars

C13_Witness ==
    /\ pkgJson = "absent"
    /\ ~traceDir
    /\ pc = "exited"
    /\ exitStatus = 1
    /\ nodeModules = "none"
    /\ genApiDocs = "plain"
    /\ convertNb = "plain"
    /\ ~Printed(MsgTraceWarning)

\* C14: the chmod of scripts/generate_api_docs.py is run only after the
\* installation command has succeeded, the chmod of
\* scripts/convert_notebooks.py only after the first chmod has succeeded,
\* and "Setup complete!" is printed only after both chmod have succeeded.
C14_FixedOrder ==
    /\ \A i \in 1..Len(ran) :
          ran[i].cmd = CmdChmodGen =>
              \E j \in 1..(i - 1) : /\ ran[j].cmd \in {CmdYarn, CmdNpm}
                                    /\ ran[j].rc = 0
    /\ \A i \in 1..Len(ran) :
          ran[i].cmd = CmdChmodConv =>
              \E j \in 1..(i - 1) : /\ ran[j].cmd = CmdChmodGen
                                    /\ ran[j].rc = 0
    /\ Printed(MsgSetupComplete) =>
          \E j, k \in 1..Len(ran) :
              /\ j < k
              /\ ran[j].cmd = CmdChmodGen /\ ran[j].rc = 0
              /\ ran[k].cmd = CmdChmodConv /\ ran[k].rc = 0

C14_Witness ==
    /\ Printed(MsgSetupComplete)
    /\ Len(ran) >= 3
    /\ ran[2].cmd = CmdChmodGen
    /\ ran[3].cmd = CmdChmodConv

====
